---------------------------- MODULE Spec2Model ----------------------------
(***************************************************************************)
(* The repository document search of deso-mcp.js: repositorySearch,        *)
(* searchRepositoryDocuments, searchInDirectory, isSearchableFile and      *)
(* findMatches, over a small file tree.                                    *)
(*                                                                         *)
(* A JavaScript string is a sequence of one-character strings; a path is a *)
(* sequence of names (path.join appends a name).  Every await of the       *)
(* traversal (fs.stat, fs.readdir, fs.readFile) is one action.             *)
(***************************************************************************)
EXTENDS Integers, Sequences, FiniteSets, TLC

VARIABLES
    disk,         \* the file tree under 'repos', by its features
    pc,           \* where the running request stands
    query,        \* the query of the running search
    searchTerms,  \* searchRepositoryDocuments: searchTerms
    repoIdx,      \* searchRepositoryDocuments: the index of repo in the loop
    results,      \* searchRepositoryDocuments: results
    stack,        \* the activations of searchInDirectory, the running one last
    returned,     \* what searchRepositoryDocuments returned
    response,     \* what the request handler answered
    statLog,      \* the paths given to fs.stat, in order
    listed,       \* the paths given to fs.readdir, in order
    seen,         \* the entries the loop of searchInDirectory came to, in order
    readLog,      \* the paths given to fs.readFile, in order
    failed,       \* the paths at which fs.readdir or fs.readFile threw
    startDisk,    \* the disk as it was when the running search began
    peer,         \* a second search, suspended at one of its awaits
    probe         \* a document handed to findMatches and getDocumentTitle

vars == <<disk, pc, query, searchTerms, repoIdx, results, stack,
          returned, response, statLog, listed, seen, readLog, failed,
          startDisk, peer, probe>>

\* What a step of one search leaves alone: the suspended search and the probe.
aside == <<peer, probe>>

\* ------------------------------------------------------------------ bounds
\* Longest query string a request carries.
MaxQueryLen == 2

\* Longest line of a document handed to findMatches directly.
MaxLine == 498

\* ------------------------------------------------------------ JS strings
UpperCase == <<"A", "B", "C", "D", "E", "F", "G", "H", "I", "J", "K", "L", "M", "N", "O", "P", "Q", "R", "S", "T", "U", "V", "W", "X", "Y", "Z">>

LowerCase == <<"a", "b", "c", "d", "e", "f", "g", "h", "i", "j", "k", "l", "m", "n", "o", "p", "q", "r", "s", "t", "u", "v", "w", "x", "y", "z">>

\* String.prototype.toLowerCase on one character.
ToLowerChar(c) ==
    IF \E i \in 1..Len(UpperCase) : UpperCase[i] = c
    THEN LowerCase[CHOOSE i \in 1..Len(UpperCase) : UpperCase[i] = c]
    ELSE c

\* String.prototype.toLowerCase.
ToLowerCase(s) == [i \in 1..Len(s) |-> ToLowerChar(s[i])]

\* String.prototype.startsWith.
StartsWith(s, p) == Len(s) >= Len(p) /\ SubSeq(s, 1, Len(p)) = p

\* String.prototype.includes: p is a substring of s (the empty string always is).
Includes(s, p) ==
    \E i \in 1..(Len(s) - Len(p) + 1) : SubSeq(s, i, i + Len(p) - 1) = p

\* String.prototype.split with a one-character separator: the pieces between
\* the separators, one more than there are separators; ''.split(' ') is [''].
Split(s, sep) ==
    LET at == {i \in 1..Len(s) : s[i] = sep}
        n == Cardinality(at)
        Pos(k) == IF k = 0 THEN 0
                  ELSE IF k = n + 1 THEN Len(s) + 1
                  ELSE CHOOSE i \in at : Cardinality({j \in at : j <= i}) = k
    IN  [k \in 1..(n + 1) |-> SubSeq(s, Pos(k - 1) + 1, Pos(k) - 1)]

\* ------------------------------------------------------------------ paths
\* path.join(dirPath, name).
Join(dirPath, name) == Append(dirPath, name)

\* path.basename.
Basename(p) == p[Len(p)]

RECURSIVE CommonPrefixLen(_, _)
CommonPrefixLen(a, b) ==
    IF a = <<>> \/ b = <<>> \/ Head(a) # Head(b) THEN 0
    ELSE 1 + CommonPrefixLen(Tail(a), Tail(b))

\* A path that is left as it is, from process.cwd() on.
RelativeUnchanged(from, to) == to

\* path.relative(from, to): one '..' for every segment of from outside the
\* common prefix, then the rest of to.
Relative(from, to) ==
    LET k == CommonPrefixLen(from, to)
    IN  [i \in 1..(Len(from) - k) |-> <<".", ".">>] \o SubSeq(to, k + 1, Len(to))

\* An extension that is all from the last '.' on, wherever that is.
ExtNameFromLastDot(name) ==
    LET dots == {i \in 1..Len(name) : name[i] = "."}
    IN  IF dots = {} THEN <<>>
        ELSE SubSeq(name, CHOOSE i \in dots : \A j \in dots : j <= i, Len(name))

\* path.extname of a file name (no separator in it): from the last '.' to the
\* end; empty when there is no '.', when the only '.' is the first character,
\* or when the name is '..'.
ExtName(name) ==
    LET dots == {i \in 1..Len(name) : name[i] = "."}
        startDot == IF dots = {} THEN 0
                    ELSE CHOOSE i \in dots : \A j \in dots : j <= i
        \* preDotState after the backward scan: 0 when nothing precedes the
        \* last dot, else set by the first character: 1 a dot, -1 any other
        preDotState == IF startDot = 0 \/ startDot = 1 THEN 0
                       ELSE IF name[1] = "." THEN 1
                       ELSE -1
    IN  IF \/ startDot = 0
           \/ preDotState = 0
           \/ (preDotState = 1 /\ startDot = Len(name) /\ startDot = 2)
        THEN <<>>
        ELSE SubSeq(name, startDot, Len(name))

\* ------------------------------------------------------- File Classifier
searchableExtensions ==
    << <<".", "m", "d">>, <<".", "t", "x", "t">>, <<".", "j", "s">>, <<".", "t", "s">>, <<".", "g", "o">>, <<".", "j", "s", "o", "n">>, <<".", "y", "a", "m", "l">>, <<".", "y", "m", "l">>,
       <<".", "t", "s", "x">>, <<".", "j", "s", "x">>, <<".", "g", "r", "a", "p", "h", "q", "l">>, <<".", "g", "q", "l">>, <<".", "c", "s", "s">>, <<".", "s", "c", "s", "s">>, <<".", "h", "t", "m", "l">>,
       <<".", "v", "u", "e">>, <<".", "p", "y">>, <<".", "s", "h">>, <<".", "e", "n", "v">>, <<".", "t", "o", "m", "l">>, <<".", "i", "n", "i">>, <<".", "c", "o", "n", "f">>,
       <<".", "c", "o", "n", "f", "i", "g">>, <<".", "l", "o", "c", "k">> >>

\* isSearchableFile with the toLowerCase() of the extension left out.
IsSearchableFileCaseSensitive(filename) ==
    \/ \E i \in 1..Len(searchableExtensions) :
            searchableExtensions[i] = ExtName(filename)
    \/ filename = <<"R", "E", "A", "D", "M", "E">>
    \/ filename = <<"L", "I", "C", "E", "N", "S", "E">>

\* isSearchableFile: the lowercased extension is listed, or the name is
\* README or LICENSE.
IsSearchableFile(filename) ==
    LET ext == ToLowerCase(ExtName(filename))
    IN  \/ \E i \in 1..Len(searchableExtensions) : searchableExtensions[i] = ext
        \/ filename = <<"R", "E", "A", "D", "M", "E">>
        \/ filename = <<"L", "I", "C", "E", "N", "S", "E">>

\* ------------------------------------------------------ regular expressions
\* A constructor that takes every term.
RegExpNeverThrows(term) == FALSE

\* new RegExp(term, 'g') for the terms a query of QueryChars can hold: every
\* character is a literal except '.', which matches any character but a line
\* terminator, and '(', which opens a group: with no ')' in the alphabet the
\* pattern is unterminated and the constructor throws a SyntaxError.
RegExpThrows(term) == \E i \in 1..Len(term) : term[i] = "("

AtomMatches(atom, c) == IF atom = "." THEN c \notin {"\n", "\r"} ELSE atom = c

\* The pattern matches s at position i.
MatchesAt(pattern, s, i) ==
    /\ i + Len(pattern) - 1 <= Len(s)
    /\ \A k \in 1..Len(pattern) : AtomMatches(pattern[k], s[i + k - 1])

RECURSIVE GreedyFrom(_, _, _)
\* Of the positions where a pattern of len characters matches, those a
\* global search takes from lastIndex on: the leftmost, then on from its end.
GreedyFrom(hits, len, lastIndex) ==
    LET rest == {i \in hits : i >= lastIndex}
    IN  IF rest = {} THEN {}
        ELSE LET first == CHOOSE i \in rest : \A j \in rest : i <= j
             IN  {first} \cup GreedyFrom(hits, len, first + len)

\* The matches of a global regular expression, by their positions: leftmost
\* first and not overlapping. Matches of no or one character cannot overlap
\* (after an empty match the search goes on from the next position), so all
\* of them are taken.
Selected(hits, len) == IF len <= 1 THEN hits ELSE GreedyFrom(hits, len, 1)

\* (s.match(new RegExp(term, 'g')) || []).length
MatchCount(s, term) ==
    Cardinality(Selected({i \in 1..(Len(s) + 1) : MatchesAt(term, s, i)}, Len(term)))

\* A score that counts each distinct term once.
ScoreOfDistinct(contentLower, terms) ==
    LET firsts == {k \in 1..Len(terms) : \A j \in 1..(k - 1) : terms[j] # terms[k]}
        RECURSIVE Sum(_)
        Sum(k) == IF k > Len(terms) THEN 0
                  ELSE (IF k \in firsts THEN MatchCount(contentLower, terms[k]) ELSE 0)
                         + Sum(k + 1)
    IN  Sum(1)

\* -------------------------------------------------------- Document Matcher
RECURSIVE ScoreOf(_, _)
\* The relevance score: the match counts of the terms, summed.
ScoreOf(contentLower, terms) ==
    IF terms = <<>> THEN 0
    ELSE MatchCount(contentLower, Head(terms)) + ScoreOf(contentLower, Tail(terms))

\* The lines of the content that contain a term (relevantLines), as indices.
RelevantLines(content, terms) ==
    LET lines == Split(content, "\n")
    IN  {i \in 1..Len(lines) :
            \E t \in 1..Len(terms) : Includes(ToLowerCase(lines[i]), terms[t])}

\* The context block of the line at index i: lines.slice(max(0, i - 2),
\* min(lines.length, i + 3)).join('\n'), with i counted from 1 here.
ContextBlock(lines, i) ==
    LET start == IF i - 2 < 1 THEN 1 ELSE i - 2
        end == IF i + 2 > Len(lines) THEN Len(lines) ELSE i + 2
        RECURSIVE JoinFrom(_)
        JoinFrom(k) == IF k = end THEN lines[k]
                       ELSE lines[k] \o <<"\n">> \o JoinFrom(k + 1)
    IN  JoinFrom(start)

\* -------------------------------------------------------- Excerpt Builder
\* String.prototype.trim.
Trim(s) ==
    LET keep == {i \in 1..Len(s) : s[i] \notin {" ", "\t", "\n", "\r"}}
    IN  IF keep = {} THEN <<>>
        ELSE SubSeq(s, CHOOSE i \in keep : \A j \in keep : i <= j,
                       CHOOSE i \in keep : \A j \in keep : j <= i)

\* s.replace(p, '') with a string p: the first occurrence of p is removed
\* (the empty p occurs at the start, and removing it changes nothing).
RemoveFirst(s, p) ==
    LET at == {i \in 1..(Len(s) - Len(p) + 1) : SubSeq(s, i, i + Len(p) - 1) = p}
    IN  IF at = {} THEN s
        ELSE LET first == CHOOSE i \in at : \A j \in at : i <= j
             IN  SubSeq(s, 1, first - 1) \o SubSeq(s, first + Len(p), Len(s))

\* The number of leading lines getDocumentTitle looks at.
TitleLines == 10

\* getDocumentTitle: the text after '# ' of the first of the first ten lines
\* that starts so, trimmed; else fileName.replace(path.extname(fileName), '')
\* with every '-' and '_' made a space.
GetDocumentTitle(content, fileName) ==
    LET lines == Split(content, "\n")
        n == IF Len(lines) < TitleLines THEN Len(lines) ELSE TitleLines
        heads == {i \in 1..n : StartsWith(lines[i], <<"#", " ">>)}
        stem == RemoveFirst(fileName, ExtName(fileName))
    IN  IF heads # {}
        THEN LET first == CHOOSE i \in heads : \A j \in heads : i <= j
             IN  Trim(SubSeq(lines[first], 3, Len(lines[first])))
        ELSE [i \in 1..Len(stem) |-> IF stem[i] \in {"-", "_"} THEN " " ELSE stem[i]]

\* An atom of new RegExp(`(${term})`, 'gi'): letters match in either case.
AtomMatchesIgnoreCase(atom, c) ==
    IF atom = "." THEN c \notin {"\n", "\r"} ELSE ToLowerChar(atom) = ToLowerChar(c)

MatchesAtIgnoreCase(pattern, s, i) ==
    /\ i + Len(pattern) - 1 <= Len(s)
    /\ \A k \in 1..Len(pattern) : AtomMatchesIgnoreCase(pattern[k], s[i + k - 1])

RECURSIVE ConcatRange(_, _, _)
\* pieces[lo] to pieces[hi] put together.
ConcatRange(pieces, lo, hi) ==
    IF lo > hi THEN <<>>
    ELSE IF lo = hi THEN pieces[lo]
    ELSE LET mid == (lo + hi) \div 2
         IN  ConcatRange(pieces, lo, mid) \o ConcatRange(pieces, mid + 1, hi)

\* excerpt.replace(regex, '**$1**'): every match, leftmost first and not
\* overlapping, is put between two '**'. The text is written position by
\* position: the '**' that ends a match that ends there, the '**' that
\* begins a match that begins there (both for an empty match), then the
\* character.
HighlightTerm(pattern, s) ==
    LET len == Len(pattern)
        taken == Selected({i \in 1..(Len(s) + 1) : MatchesAtIgnoreCase(pattern, s, i)}, len)
        Stars(i) == (IF len >= 1 /\ (i - len) \in taken THEN <<"*", "*">> ELSE <<>>)
                      \o (IF i \in taken THEN <<"*", "*">> ELSE <<>>)
                      \o (IF len = 0 /\ i \in taken THEN <<"*", "*">> ELSE <<>>)
        pieces == [i \in 1..(Len(s) + 1) |->
                      Stars(i) \o (IF i <= Len(s) THEN << s[i] >> ELSE <<>>)]
    IN  ConcatRange(pieces, 1, Len(s) + 1)

RECURSIVE Highlight(_, _)
\* The terms highlighted one after another, each in the text the one before
\* it left.
Highlight(excerpt, terms) ==
    IF terms = <<>> THEN excerpt
    ELSE Highlight(HighlightTerm(Head(terms), excerpt), Tail(terms))

\* The longest excerpt that is kept whole.
ExcerptLimit == 500

\* A limit that cuts an excerpt of exactly ExcerptLimit characters too.
LimitExcerptInclusive(excerpt) ==
    IF Len(excerpt) >= ExcerptLimit
    THEN SubSeq(excerpt, 1, ExcerptLimit) \o <<".", ".", ".">>
    ELSE excerpt

\* The limit of createExcerpt: a longer excerpt is cut to ExcerptLimit
\* characters and '...' is put after them.
LimitExcerpt(excerpt) ==
    IF Len(excerpt) > ExcerptLimit
    THEN SubSeq(excerpt, 1, ExcerptLimit) \o <<".", ".", ".">>
    ELSE excerpt

\* An excerpt taken from the last relevant line.
CreateExcerptFromLast(lines, relevant, terms) ==
    IF relevant = {} THEN <<>>
    ELSE LET last == CHOOSE i \in relevant : \A j \in relevant : j <= i
         IN  LimitExcerpt(Highlight(ContextBlock(lines, last), terms))

\* createExcerpt over the lines of the content and the indices of the
\* relevant lines: the context block of the first of them, highlighted and
\* limited; empty when there is none.
CreateExcerpt(lines, relevant, terms) ==
    IF relevant = {} THEN <<>>
    ELSE LET first == CHOOSE i \in relevant : \A j \in relevant : i <= j
         IN  LimitExcerpt(Highlight(ContextBlock(lines, first), terms))

\* -------------------------------------------------------- Document Matcher
\* findMatches that pushes a record for every relevant line.
FindMatchesPerLine(content, terms, filePath, repository, reposPath) ==
    LET score == ScoreOf(ToLowerCase(content), terms)
        relevant == RelevantLines(content, terms)
        one == [title |-> GetDocumentTitle(content, Basename(filePath)),
                path |-> Relative(reposPath, filePath),
                repository |-> repository,
                score |-> score,
                excerpt |-> CreateExcerpt(Split(content, "\n"), relevant, terms),
                matchCount |-> Cardinality(relevant)]
    IN  IF \E t \in 1..Len(terms) : RegExpThrows(terms[t])
        THEN [threw |-> TRUE, matches |-> <<>>]
        ELSE IF score = 0 THEN [threw |-> FALSE, matches |-> <<>>]
        ELSE [threw |-> FALSE, matches |-> [k \in 1..Cardinality(relevant) |-> one]]

\* findMatches: threw when a term is no regular expression, else the array
\* it returns, of no or one record.
FindMatches(content, terms, filePath, repository, reposPath) ==
    LET contentLower == ToLowerCase(content)
        score == ScoreOf(contentLower, terms)
        relevant == RelevantLines(content, terms)
    IN  IF \E t \in 1..Len(terms) : RegExpThrows(terms[t])
        THEN [threw |-> TRUE, matches |-> <<>>]
        ELSE IF score = 0 THEN [threw |-> FALSE, matches |-> <<>>]
        ELSE [threw |-> FALSE,
              matches |-> << [title |-> GetDocumentTitle(content, Basename(filePath)),
                              path |-> Relative(reposPath, filePath),
                              repository |-> repository,
                              score |-> score,
                              excerpt |-> CreateExcerpt(Split(content, "\n"),
                                                        relevant, terms),
                              matchCount |-> Cardinality(relevant)] >>]

\* ------------------------------------------------------------ file system
\* A node of the file tree: a directory with its listing (in readdir order),
\* a regular file with its content, or an entry that is neither (a symbolic
\* link, a socket).  readable is the permission to list or read it.
Node(name, type, content, entries, readable) ==
    [name |-> name, type |-> type, content |-> content, entries |-> entries,
     readable |-> readable]

File(name, content, readable) == Node(name, "file", content, <<>>, readable)

Dir(name, entries, readable) == Node(name, "dir", <<>>, entries, readable)

Other(name) == Node(name, "other", <<>>, <<>>, TRUE)

Missing == Node(<<>>, "missing", <<>>, <<>>, FALSE)

\* process.cwd() is the empty path; reposPath is path.join(process.cwd(), 'repos').
ReposPath == << <<"r", "e", "p", "o", "s">> >>

repositories ==
    << <<"d", "o", "c", "s">>, <<"c", "o", "r", "e">>, <<"i", "d", "e", "n", "t", "i", "t", "y">>, <<"f", "r", "o", "n", "t", "e", "n", "d">>, <<"b", "a", "c", "k", "e", "n", "d">>, <<"d", "e", "s", "o", "-", "j", "s">>,
       <<"d", "e", "s", "o", "-", "c", "h", "a", "t">>, <<"d", "e", "s", "o", "-", "u", "i">>, <<"g", "r", "a", "p", "h", "q", "l">> >>

\* What 'repos/docs' is on the disk.
RootKinds == {"dir", "file", "missing"}

\* Names the first file of docs takes.
FileNames ==
    { <<"a", ".", "m", "d">>, <<"a", ".", "M", "D">>, <<"a", ".", "p", "n", "g">>, <<"R", "E", "A", "D", "M", "E">>, <<"r", "e", "a", "d", "m", "e">>, <<"L", "I", "C", "E", "N", "S", "E">>, <<".", "e", "n", "v">>,
      <<".", "e", ".", "j", "s", "o", "n">>, <<"a", ".">> }

\* Names the subdirectory of docs and of core/lib takes.
DirNames ==
    { <<"s", "u", "b">>, <<"B", "u", "i", "l", "d">>, <<".", "g", "i", "t">>, <<"n", "o", "d", "e", "_", "m", "o", "d", "u", "l", "e", "s">>, <<"d", "i", "s", "t">>, <<"b", "u", "i", "l", "d">>, <<".", "n", "e", "x", "t">>,
      <<"s", "t", "o", "r", "y", "b", "o", "o", "k", "-", "s", "t", "a", "t", "i", "c">> }

\* Which entry of core cannot be opened: core/lib (a directory) or core/f.txt.
Denials == {"none", "dir", "file"}

\* The number of files of 'backend' on the disk that has that repository.
ManyFiles == 11

DefaultDisk ==
    [base |-> TRUE, kind |-> "dir", file |-> <<"a", ".", "m", "d">>, dir |-> <<"s", "u", "b">>,
     deny |-> "none", many |-> FALSE, gone |-> {}, late |-> FALSE]

\* The disks a search runs on: the default one with one of its features varied.
Disks ==
    {[DefaultDisk EXCEPT !.kind = k] : k \in RootKinds}
        \cup {[DefaultDisk EXCEPT !.file = n] : n \in FileNames}
        \cup {[DefaultDisk EXCEPT !.dir = n] : n \in DirNames}
        \cup {[DefaultDisk EXCEPT !.deny = x] : x \in Denials}
        \cup {[DefaultDisk EXCEPT !.base = FALSE]}
        \cup {[DefaultDisk EXCEPT !.many = TRUE]}

DocsEntries(d) ==
    << File(d.file, <<"a">>, TRUE),
       Dir(d.dir, << File(<<"b", ".", "m", "d">>, <<"A", "\n", "a", ".", "a">>, TRUE), Other(<<"l", "i", "n", "k">>) >>, TRUE),
       File(<<"c", ".", "t", "x", "t">>, <<"a", ".">>, TRUE) >>

CoreEntries(d) ==
    << Dir(<<"l", "i", "b">>,
           << Dir(d.dir, << File(<<"d", ".", "m", "d">>, <<"a">>, TRUE) >>, TRUE),
              File(<<"e", ".", "j", "s">>, <<"a", "a">>, TRUE) >>,
           d.deny # "dir"),
       File(<<"f", ".", "t", "x", "t">>, <<"a", ".", "a">>, d.deny # "file") >>

\* The files of 'backend': the first four hold 'a', the others '.', so that
\* one search finds as many documents as a response shows and another more.
BackendEntries ==
    [i \in 1..ManyFiles |->
        File(<<"n", LowerCase[i]>> \o <<".", "m", "d">>, IF i <= 4 THEN <<"a">> ELSE <<".">>, TRUE)]

\* The 'repos' directory of disk d before anything was deleted.
FullTree(d) ==
    Dir(<<"r", "e", "p", "o", "s">>,
        (CASE d.kind = "dir" -> << Dir(<<"d", "o", "c", "s">>, DocsEntries(d), TRUE) >>
           [] d.kind = "file" -> << File(<<"d", "o", "c", "s">>, <<"a">>, TRUE) >>
           [] OTHER -> <<>>)
          \o << Dir(<<"c", "o", "r", "e">>, CoreEntries(d), TRUE) >>
          \o (IF d.many THEN << Dir(<<"b", "a", "c", "k", "e", "n", "d">>, BackendEntries, TRUE) >> ELSE <<>>)
          \o << Dir(<<"g", "r", "a", "p", "h", "q", "l">>, << File(<<"q", ".", "g", "q", "l">>, <<"(", ".", "\n">>, TRUE) >>, TRUE) >>,
        d.base)

RECURSIVE Prune(_, _, _)
\* The node at path without the entries at the paths of gone, at any depth.
Prune(node, path, gone) ==
    LET RECURSIVE Kept(_)
        Kept(k) ==
            IF k > Len(node.entries) THEN <<>>
            ELSE IF Append(path, node.entries[k].name) \in gone THEN Kept(k + 1)
            ELSE << Prune(node.entries[k], Append(path, node.entries[k].name), gone) >>
                    \o Kept(k + 1)
    IN  [node EXCEPT !.entries = Kept(1)]

\* The 'repos' directory of disk d: what was deleted is not there.
Tree(d) == Prune(FullTree(d), ReposPath, d.gone)

RECURSIVE Lookup(_, _)
\* The node a path leads to from a directory node, Missing when there is none.
Lookup(node, segments) ==
    IF segments = <<>> THEN node
    ELSE IF node.type # "dir" \/ ~node.readable THEN Missing
    ELSE IF \E i \in 1..Len(node.entries) : node.entries[i].name = Head(segments)
    THEN Lookup(node.entries[CHOOSE i \in 1..Len(node.entries) :
                                 node.entries[i].name = Head(segments)],
                Tail(segments))
    ELSE Missing

\* The file of the server itself, which lies in process.cwd() next to 'repos'.
ServerFile == File(<<"d", "e", "s", "o", "-", "m", "c", "p", ".", "j", "s">>, <<"#", "!">>, TRUE)

\* The node at a path under process.cwd().
NodeAt(d, path) ==
    IF path = << ServerFile.name >> THEN ServerFile
    ELSE IF path = <<>> \/ Head(path) # Head(ReposPath) THEN Missing
    ELSE Lookup(Tree(d), Tail(path))

\* fs.stat(path) throws: nothing is there, or a directory on the way is closed.
StatThrows(d, path) == NodeAt(d, path).type = "missing"

\* fs.readdir(path) throws.
ReaddirThrows(d, path) ==
    LET n == NodeAt(d, path) IN n.type # "dir" \/ ~n.readable

\* fs.readdir(path, { withFileTypes: true }): the entries, each a Dirent.
Readdir(d, path) ==
    LET n == NodeAt(d, path)
    IN  [i \in 1..Len(n.entries) |->
            [name |-> n.entries[i].name, type |-> n.entries[i].type]]

\* fs.readFile(path, 'utf-8') throws.
ReadFileThrows(d, path) ==
    LET n == NodeAt(d, path) IN n.type # "file" \/ ~n.readable

ReadFile(d, path) == NodeAt(d, path).content

\* ----------------------------------------------------------------- queries
\* The characters of a query: a letter in both cases, the regular-expression
\* characters '.' and '(', and the separator.
QueryChars == {"a", "A", ".", "(", " "}

Queries == UNION {[1..n -> QueryChars] : n \in 0..MaxQueryLen}

\* --------------------------------------------------------------- Tree Walker
\* The exclusion with the comparison to 'build' left out.
IsExcludedDirNoBuild(name) ==
    \/ StartsWith(name, <<".">>)
    \/ name \in {<<"n", "o", "d", "e", "_", "m", "o", "d", "u", "l", "e", "s">>, <<".", "n", "e", "x", "t">>, <<"d", "i", "s", "t">>, <<"s", "t", "o", "r", "y", "b", "o", "o", "k", "-", "s", "t", "a", "t", "i", "c">>}

\* The directories searchInDirectory does not enter: the name starts with
\* '.' or is one of five names.
IsExcludedDir(name) ==
    \/ StartsWith(name, <<".">>)
    \/ name \in {<<"n", "o", "d", "e", "_", "m", "o", "d", "u", "l", "e", "s">>, <<".", "n", "e", "x", "t">>, <<"d", "i", "s", "t">>, <<"b", "u", "i", "l", "d">>, <<"s", "t", "o", "r", "y", "b", "o", "o", "k", "-", "s", "t", "a", "t", "i", "c">>}

\* One activation of searchInDirectory: its directory, the entries readdir
\* gave it, the index of the entry the loop is at, and its results array.
Frame(dirPath) == [dirPath |-> dirPath, entries |-> <<>>, i |-> 1, results |-> <<>>]

Top == stack[Len(stack)]

SetTop(f) == [stack EXCEPT ![Len(stack)] = f]

Entry == Top.entries[Top.i]

FullPath == Join(Top.dirPath, Entry.name)

\* The label of the repository the loop of searchRepositoryDocuments is at.
Repo == repositories[repoIdx]

\* --------------------------------------------------------------- orchestrator
\* A comparator with its operands swapped: ascending by score.
SortByScoreAscending(rs) ==
    LET RECURSIVE Sorted(_)
        Sorted(xs) ==
            IF xs = <<>> THEN <<>>
            ELSE LET done == Sorted(SubSeq(xs, 1, Len(xs) - 1))
                     x == xs[Len(xs)]
                     k == Cardinality({j \in 1..Len(done) : done[j].score <= x.score})
                 IN  SubSeq(done, 1, k) \o <<x>> \o SubSeq(done, k + 1, Len(done))
    IN  Sorted(rs)

\* A sort that is not stable: an element goes before the ones it ties with.
SortByScoreUnstable(rs) ==
    LET RECURSIVE Sorted(_)
        Sorted(xs) ==
            IF xs = <<>> THEN <<>>
            ELSE LET done == Sorted(SubSeq(xs, 1, Len(xs) - 1))
                     x == xs[Len(xs)]
                     k == Cardinality({j \in 1..Len(done) : done[j].score > x.score})
                 IN  SubSeq(done, 1, k) \o <<x>> \o SubSeq(done, k + 1, Len(done))
    IN  Sorted(rs)

\* results.sort((a, b) => b.score - a.score): Array.prototype.sort is stable,
\* so each element goes after the elements that compare no greater.
SortByScore(rs) ==
    LET RECURSIVE Sorted(_)
        Sorted(xs) ==
            IF xs = <<>> THEN <<>>
            ELSE LET done == Sorted(SubSeq(xs, 1, Len(xs) - 1))
                     x == xs[Len(xs)]
                     k == Cardinality({j \in 1..Len(done) : done[j].score >= x.score})
                 IN  SubSeq(done, 1, k) \o <<x>> \o SubSeq(done, k + 1, Len(done))
    IN  Sorted(rs)

\* The number of results repositorySearch renders.
TopN == 10

NoResponse == [kind |-> "pending", found |-> 0, shown |-> <<>>, notice |-> FALSE]

\* A response whose notice is there from TopN results on.
RenderNoticeAtLimit(rs) ==
    IF Len(rs) = 0
    THEN [kind |-> "none", found |-> 0, shown |-> <<>>, notice |-> FALSE]
    ELSE [kind |-> "found", found |-> Len(rs),
          shown |-> SubSeq(rs, 1, IF Len(rs) < TopN THEN Len(rs) ELSE TopN),
          notice |-> Len(rs) >= TopN]

\* The text repositorySearch answers with, by its parts.
Render(rs) ==
    IF Len(rs) = 0
    THEN [kind |-> "none", found |-> 0, shown |-> <<>>, notice |-> FALSE]
    ELSE [kind |-> "found", found |-> Len(rs),
          shown |-> SubSeq(rs, 1, IF Len(rs) < TopN THEN Len(rs) ELSE TopN),
          notice |-> Len(rs) > TopN]

\* A catch that leaves the loop (break) where the code continues.
AfterStatErrorBreak(i) == Len(repositories) + 1

\* The repository index the loop goes on with after the catch of a failed
\* stat: continue.
AfterStatError(i) == i + 1

\* A search that has not begun, as the suspended search holds it.
NoSearch ==
    [pc |-> "idle", query |-> <<>>, searchTerms |-> <<>>, repoIdx |-> 1,
     results |-> <<>>, stack |-> <<>>, returned |-> <<>>, response |-> NoResponse,
     statLog |-> <<>>, listed |-> <<>>, seen |-> <<>>, readLog |-> <<>>,
     failed |-> <<>>]

\* No document handed over yet.
NoProbe == [at |-> "none"]

\* ------------------------------------------------- a search in one step
RECURSIVE SearchInDirectory(_, _, _, _)
\* searchInDirectory(dirPath, repository, searchTerms) on a disk that does
\* not change while it runs: the results it returns.
SearchInDirectory(d, dirPath, repository, terms) ==
    IF ReaddirThrows(d, dirPath) THEN <<>>
    ELSE LET entries == Readdir(d, dirPath)
             RECURSIVE Loop(_)
             Loop(k) ==
                 IF k > Len(entries) THEN <<>>
                 ELSE LET entry == entries[k]
                          fullPath == Join(dirPath, entry.name)
                      IN  (IF entry.type = "dir" /\ ~IsExcludedDir(entry.name)
                           THEN SearchInDirectory(d, fullPath, repository, terms)
                           ELSE IF entry.type = "file" /\ IsSearchableFile(entry.name)
                           THEN IF ReadFileThrows(d, fullPath) THEN <<>>
                                ELSE FindMatches(ReadFile(d, fullPath), terms, fullPath,
                                                 repository, ReposPath).matches
                           ELSE <<>>)
                          \o Loop(k + 1)
         IN  Loop(1)

\* searchRepositoryDocuments(query) on a disk that does not change while it
\* runs: the sorted list it returns.
SearchRepositoryDocuments(d, q) ==
    LET terms == Split(ToLowerCase(q), " ")
        RECURSIVE Repos(_)
        Repos(r) ==
            IF r > Len(repositories) THEN <<>>
            ELSE LET repoPath == Join(ReposPath, repositories[r])
                 IN  (IF StatThrows(d, repoPath) THEN <<>>
                      ELSE IF NodeAt(d, repoPath).type = "dir"
                      THEN SearchInDirectory(d, repoPath, repositories[r], terms)
                      ELSE <<>>)
                     \o Repos(r + 1)
    IN  SortByScore(Repos(1))

\* ------------------------------------------------------- Document Reader
RECURSIVE NormalizeFrom(_, _)
\* path.normalize over the segments of a path, out being what is kept so
\* far: empty segments and '.' go, '..' takes the segment before it away,
\* and stays when there is none (the path leaves process.cwd()).
NormalizeFrom(segments, out) ==
    IF segments = <<>> THEN out
    ELSE LET h == Head(segments)
         IN  IF h \in {<<>>, <<".">>} THEN NormalizeFrom(Tail(segments), out)
             ELSE IF h = <<".", ".">> /\ out # <<>> /\ out[Len(out)] # <<".", ".">>
             THEN NormalizeFrom(Tail(segments), SubSeq(out, 1, Len(out) - 1))
             ELSE NormalizeFrom(Tail(segments), Append(out, h))

\* path.join(process.cwd(), 'repos', repository, docPath), or without the
\* repository when it is not given (or empty); docPath by its segments.
DocumentPath(args) ==
    NormalizeFrom(ReposPath
                    \o (IF args.repository # <<>> THEN << args.repository >> ELSE <<>>)
                    \o args.path, <<>>)

\* The error of fs.readFile(fullPath): its code, and the path its message
\* names (the message of EISDIR names none).
ReadFileError(d, fullPath) ==
    LET n == NodeAt(d, fullPath)
        code == CASE n.type = "missing" -> "ENOENT"
                  [] n.type = "dir" -> "EISDIR"
                  [] n.type = "file" -> "EACCES"
                  [] OTHER -> "ENXIO"
    IN  [code |-> code, path |-> IF code = "EISDIR" THEN <<>> ELSE fullPath]

\* A reader without the catch: the error leaves readRepositoryDocument.
ReadFailureThrown(args, error) == [kind |-> "thrown", error |-> error]

\* The 'Document Read Error' response of the catch, by its parts.
ReadFailure(args, error) ==
    [kind |-> "readError", path |-> args.path, repository |-> args.repository,
     message |-> error, suggests |-> "repository_search"]

\* The response of readRepositoryDocument(args) on disk d.
ReadResponse(d, args) ==
    LET fullPath == DocumentPath(args)
    IN  IF ReadFileThrows(d, fullPath)
        THEN ReadFailure(args, ReadFileError(d, fullPath))
        ELSE [kind |-> "document",
              title |-> GetDocumentTitle(ReadFile(d, fullPath), Basename(fullPath)),
              path |-> args.path, repository |-> args.repository,
              file |-> Basename(fullPath), content |-> ReadFile(d, fullPath)]

\* The arguments of the read requests: paths with and without the
\* repository in them, to files, to a directory, to nothing, with '..' and
\* with a leading '/'; the repository given, unknown, or not given.
ReadPaths ==
    {<< <<"a", ".", "m", "d">> >>, << <<"d", "o", "c", "s">>, <<"a", ".", "m", "d">> >>, << <<"s", "u", "b">>, <<"b", ".", "m", "d">> >>,
     << <<"d", "o", "c", "s">>, <<"s", "u", "b">>, <<"b", ".", "m", "d">> >>, << <<"n", "o", "p", "e", ".", "m", "d">> >>, << <<"d", "o", "c", "s">> >>,
     << <<".", ".">>, <<"c", "o", "r", "e">>, <<"f", ".", "t", "x", "t">> >>, << <<>>, <<"c", "o", "r", "e">>, <<"f", ".", "t", "x", "t">> >>,
     << <<".", ".">>, <<".", ".">>, <<"e", "t", "c">>, <<"p", "a", "s", "s", "w", "d">> >>, << <<".", ".">>, <<"d", "e", "s", "o", "-", "m", "c", "p", ".", "j", "s">> >>}

ReadRepositories == {<<>>, <<"d", "o", "c", "s">>, <<"n", "o", "p", "e">>}

ReadArgs == [path : ReadPaths, repository : ReadRepositories]

\* The value of what is not there.
Undefined == "undefined"

\* The arguments of a request that lack what the tool needs: no arguments
\* object at all, or an empty one.
MalformedArgs == {Undefined, "{}"}

\* A results array that outlives the call and is never emptied.
StaleResults == results

\* const results = []: every call of searchRepositoryDocuments begins with
\* an array of its own.
FreshResults == <<>>

\* ------------------------------------------------------------------ actions
Init ==
    /\ disk \in Disks
    /\ pc = "idle"
    /\ query = <<>>
    /\ searchTerms = <<>>
    /\ repoIdx = 1
    /\ results = <<>>
    /\ stack = <<>>
    /\ returned = <<>>
    /\ response = NoResponse
    /\ statLog = <<>>
    /\ listed = <<>>
    /\ seen = <<>>
    /\ readLog = <<>>
    /\ failed = <<>>
    /\ startDisk = disk
    /\ peer = NoSearch
    /\ probe = NoProbe

\* repositorySearch(args) calls searchRepositoryDocuments(query), which splits
\* the query and starts the loop over the repositories.
RepositorySearch(q) ==
    /\ pc \in {"idle", "done", "read", "failed"}
    /\ query' = q
    /\ searchTerms' = Split(ToLowerCase(q), " ")
    /\ repoIdx' = 1
    /\ results' = FreshResults
    /\ stack' = <<>>
    /\ returned' = <<>>
    /\ response' = NoResponse
    /\ statLog' = <<>>
    /\ listed' = <<>>
    /\ seen' = <<>>
    /\ readLog' = <<>>
    /\ failed' = <<>>
    /\ startDisk' = disk
    /\ pc' = "stat"
    /\ UNCHANGED <<aside, disk>>

\* readRepositoryDocument(args): the path is joined, the file is read, and
\* the document or the read error is the response. Nothing of a search
\* before it is left.
ReadRepositoryDocument(args) ==
    /\ pc \in {"idle", "done", "read", "failed"}
    /\ readLog' = << DocumentPath(args) >>
    /\ failed' = IF ReadFileThrows(disk, DocumentPath(args))
                 THEN << DocumentPath(args) >> ELSE <<>>
    /\ response' = ReadResponse(disk, args)
    /\ pc' = "read"
    /\ query' = <<>>
    /\ searchTerms' = <<>>
    /\ repoIdx' = 1
    /\ results' = <<>>
    /\ stack' = <<>>
    /\ returned' = <<>>
    /\ statLog' = <<>>
    /\ listed' = <<>>
    /\ seen' = <<>>
    /\ startDisk' = disk
    /\ UNCHANGED <<aside, disk>>

\* A request is over without a search and without a read.
Failed(answer) ==
    /\ pc \in {"idle", "done", "read", "failed"}
    /\ response' = answer
    /\ pc' = "failed"
    /\ query' = <<>>
    /\ searchTerms' = <<>>
    /\ repoIdx' = 1
    /\ results' = <<>>
    /\ stack' = <<>>
    /\ returned' = <<>>
    /\ statLog' = <<>>
    /\ listed' = <<>>
    /\ seen' = <<>>
    /\ readLog' = <<>>
    /\ failed' = <<>>
    /\ startDisk' = disk
    /\ UNCHANGED <<aside, disk>>

\* repositorySearch(args) with no arguments object, or with one that has no
\* query. 'const { query } = args' stands before the try: with no args it
\* throws a TypeError that leaves the function. With no query,
\* query.toLowerCase() throws in searchRepositoryDocuments before anything
\* is looked at, and the catch answers with 'Repository Search Error'.
RepositorySearchMalformed(args) ==
    Failed(IF args = Undefined
           THEN [kind |-> "thrown", error |-> "TypeError"]
           ELSE [kind |-> "error", query |-> Undefined, message |-> "TypeError"])

\* readRepositoryDocument(args) with no arguments object, or with one that
\* has no path. The destructuring stands before the try: with no args it
\* throws a TypeError that leaves the function. With no path, path.join
\* throws in the try and the catch answers with 'Document Read Error'.
ReadRepositoryDocumentMalformed(args) ==
    Failed(IF args = Undefined
           THEN [kind |-> "thrown", error |-> "TypeError"]
           ELSE ReadFailure([path |-> Undefined, repository |-> <<>>],
                            [code |-> "ERR_INVALID_ARG_TYPE", path |-> <<>>]))

\* await fs.stat(repoPath) throws: the catch logs and continues.
StatRepoThrows ==
    /\ pc = "stat"
    /\ repoIdx <= Len(repositories)
    /\ StatThrows(disk, Join(ReposPath, Repo))
    /\ statLog' = Append(statLog, Join(ReposPath, Repo))
    /\ repoIdx' = AfterStatError(repoIdx)
    /\ UNCHANGED <<aside, startDisk, failed, disk, pc, query, searchTerms, results, stack, returned,
                   response, listed, seen, readLog>>

\* stats.isDirectory() is false: the repository is passed over.
StatRepoNotDirectory ==
    /\ pc = "stat"
    /\ repoIdx <= Len(repositories)
    /\ ~StatThrows(disk, Join(ReposPath, Repo))
    /\ NodeAt(disk, Join(ReposPath, Repo)).type # "dir"
    /\ statLog' = Append(statLog, Join(ReposPath, Repo))
    /\ repoIdx' = repoIdx + 1
    /\ UNCHANGED <<aside, startDisk, failed, disk, pc, query, searchTerms, results, stack, returned,
                   response, listed, seen, readLog>>

\* stats.isDirectory(): searchInDirectory(repoPath, repo, searchTerms) is called.
StatRepoDirectory ==
    /\ pc = "stat"
    /\ repoIdx <= Len(repositories)
    /\ ~StatThrows(disk, Join(ReposPath, Repo))
    /\ NodeAt(disk, Join(ReposPath, Repo)).type = "dir"
    /\ statLog' = Append(statLog, Join(ReposPath, Repo))
    /\ stack' = << Frame(Join(ReposPath, Repo)) >>
    /\ pc' = "readdir"
    /\ UNCHANGED <<aside, startDisk, failed, disk, query, searchTerms, repoIdx, results, returned,
                   response, listed, seen, readLog>>

\* await fs.readdir(dirPath, { withFileTypes: true }) gives the entries.
ReaddirOk ==
    /\ pc = "readdir"
    /\ ~ReaddirThrows(disk, Top.dirPath)
    /\ listed' = Append(listed, Top.dirPath)
    /\ stack' = SetTop([Top EXCEPT !.entries = Readdir(disk, Top.dirPath)])
    /\ pc' = "entry"
    /\ UNCHANGED <<aside, startDisk, failed, disk, query, searchTerms, repoIdx, results, returned,
                   response, statLog, seen, readLog>>

\* await fs.readdir throws and searchInDirectory has no catch: the error
\* passes through every calling searchInDirectory to the catch in the loop
\* over the repositories, which goes on with the next repository.
ReaddirFailsPropagates ==
    /\ pc = "readdir"
    /\ ReaddirThrows(disk, Top.dirPath)
    /\ listed' = Append(listed, Top.dirPath)
    /\ failed' = Append(failed, Top.dirPath)
    /\ stack' = <<>>
    /\ repoIdx' = repoIdx + 1
    /\ pc' = "stat"
    /\ UNCHANGED <<aside, startDisk, disk, query, searchTerms, results, returned,
                   response, statLog, seen, readLog>>

\* A failed fs.readdir that is tried again: the function stays where it is.
ReaddirFailsRetry ==
    /\ pc = "readdir"
    /\ ReaddirThrows(disk, Top.dirPath)
    /\ UNCHANGED vars

\* await fs.readdir throws: the outer catch logs, and the loop over the
\* entries never runs; the function goes on to return its empty results.
ReaddirFails ==
    /\ pc = "readdir"
    /\ ReaddirThrows(disk, Top.dirPath)
    /\ listed' = Append(listed, Top.dirPath)
    /\ failed' = Append(failed, Top.dirPath)
    /\ stack' = SetTop([Top EXCEPT !.entries = <<>>])
    /\ pc' = "entry"
    /\ UNCHANGED <<aside, startDisk, disk, query, searchTerms, repoIdx, results, returned,
                   response, statLog, seen, readLog>>

\* A walk that takes the next sibling before the subdirectory: the directory
\* changes places with the entry after it as long as there is one.
EnterDirectoryAfterSibling ==
    /\ pc = "entry"
    /\ Top.i <= Len(Top.entries)
    /\ Entry.type = "dir"
    /\ ~IsExcludedDir(Entry.name)
    /\ IF Top.i < Len(Top.entries)
       THEN /\ stack' = SetTop([Top EXCEPT !.entries[Top.i] = Top.entries[Top.i + 1],
                                           !.entries[Top.i + 1] = Entry])
            /\ UNCHANGED <<seen, pc>>
       ELSE /\ seen' = Append(seen, FullPath)
            /\ stack' = Append(stack, Frame(FullPath))
            /\ pc' = "readdir"
    /\ UNCHANGED <<aside, startDisk, failed, disk, query, searchTerms, repoIdx, results, returned,
                   response, statLog, listed, readLog>>

\* The entry is a directory that is not excluded: the recursive call.
EnterDirectory ==
    /\ pc = "entry"
    /\ Top.i <= Len(Top.entries)
    /\ Entry.type = "dir"
    /\ ~IsExcludedDir(Entry.name)
    /\ seen' = Append(seen, FullPath)
    /\ stack' = Append(stack, Frame(FullPath))
    /\ pc' = "readdir"
    /\ UNCHANGED <<aside, startDisk, failed, disk, query, searchTerms, repoIdx, results, returned,
                   response, statLog, listed, readLog>>

\* What the file at the entry adds to the results: nothing when readFile or
\* findMatches throws (the inner catch), else the matches.
FileMatches ==
    IF ReadFileThrows(disk, FullPath) THEN <<>>
    ELSE FindMatches(ReadFile(disk, FullPath), searchTerms, FullPath,
                     repositories[repoIdx], ReposPath).matches

\* readFile or findMatches throws at the entry.
FileThrows ==
    \/ ReadFileThrows(disk, FullPath)
    \/ FindMatches(ReadFile(disk, FullPath), searchTerms, FullPath,
                   repositories[repoIdx], ReposPath).threw

\* An activation whose loop ends at a throw: no inner catch, so the outer
\* catch of searchInDirectory takes it.
AfterFileErrorAbort(frame) == [frame EXCEPT !.i = Len(frame.entries) + 1]

\* The activation after the inner catch: continue with the next entry.
AfterFileError(frame) == [frame EXCEPT !.i = @ + 1]

\* The entry is a searchable file: it is read and matched.
SearchFile ==
    /\ pc = "entry"
    /\ Top.i <= Len(Top.entries)
    /\ ~(Entry.type = "dir" /\ ~IsExcludedDir(Entry.name))
    /\ Entry.type = "file"
    /\ IsSearchableFile(Entry.name)
    /\ seen' = Append(seen, FullPath)
    /\ readLog' = Append(readLog, FullPath)
    /\ failed' = IF ReadFileThrows(disk, FullPath) THEN Append(failed, FullPath)
                 ELSE failed
    /\ stack' = SetTop(IF FileThrows THEN AfterFileError(Top)
                       ELSE [Top EXCEPT !.results = @ \o FileMatches, !.i = @ + 1])
    /\ UNCHANGED <<aside, startDisk, disk, pc, query, searchTerms, repoIdx, results, returned,
                   response, statLog, listed>>

\* Any other entry (an excluded directory, a file that is not searchable, an
\* entry that is neither a file nor a directory) is passed over.
SkipEntry ==
    /\ pc = "entry"
    /\ Top.i <= Len(Top.entries)
    /\ ~(Entry.type = "dir" /\ ~IsExcludedDir(Entry.name))
    /\ ~(Entry.type = "file" /\ IsSearchableFile(Entry.name))
    /\ seen' = Append(seen, FullPath)
    /\ stack' = SetTop([Top EXCEPT !.i = @ + 1])
    /\ UNCHANGED <<aside, startDisk, failed, disk, pc, query, searchTerms, repoIdx, results, returned,
                   response, statLog, listed, readLog>>

\* searchInDirectory returns to the searchInDirectory that called it, which
\* pushes the results and goes on with its next entry.
ReturnToParent ==
    /\ pc = "entry"
    /\ Top.i > Len(Top.entries)
    /\ Len(stack) > 1
    /\ stack' = LET parent == stack[Len(stack) - 1]
                IN  Append(SubSeq(stack, 1, Len(stack) - 2),
                           [parent EXCEPT !.results = @ \o Top.results, !.i = @ + 1])
    /\ UNCHANGED <<aside, startDisk, failed, disk, pc, query, searchTerms, repoIdx, results, returned,
                   response, statLog, listed, seen, readLog>>

\* searchInDirectory returns to searchRepositoryDocuments, which pushes the
\* repository's results and goes on with the next repository.
ReturnToSearch ==
    /\ pc = "entry"
    /\ Top.i > Len(Top.entries)
    /\ Len(stack) = 1
    /\ results' = results \o Top.results
    /\ stack' = <<>>
    /\ repoIdx' = repoIdx + 1
    /\ pc' = "stat"
    /\ UNCHANGED <<aside, startDisk, failed, disk, query, searchTerms, returned, response, statLog,
                   listed, seen, readLog>>

\* After the last repository the results array is sorted in place and
\* returned, and repositorySearch renders it.
Finish ==
    /\ pc = "stat"
    /\ repoIdx > Len(repositories)
    /\ results' = SortByScore(results)
    /\ returned' = results'
    /\ response' = Render(results')
    /\ pc' = "done"
    /\ UNCHANGED <<aside, startDisk, failed, disk, query, searchTerms, repoIdx, stack, statLog, listed,
                   seen, readLog>>

Next ==
    \/ \E q \in Queries : RepositorySearch(q)
    \/ \E args \in ReadArgs : ReadRepositoryDocument(args)
    \/ \E args \in MalformedArgs : RepositorySearchMalformed(args)
    \/ \E args \in MalformedArgs : ReadRepositoryDocumentMalformed(args)
    \/ StatRepoThrows
    \/ StatRepoNotDirectory
    \/ StatRepoDirectory
    \/ ReaddirOk
    \/ ReaddirFails
    \/ EnterDirectory
    \/ SearchFile
    \/ SkipEntry
    \/ ReturnToParent
    \/ ReturnToSearch
    \/ Finish

Spec == Init /\ [][Next]_vars

\* ------------------------------------------- searches on a changing disk
\* What another process may delete: the first file and the directory of
\* 'docs', and the directory of 'core'.
Deletable(d) ==
    {ReposPath \o <<<<"d", "o", "c", "s">>, d.file>>, ReposPath \o <<<<"d", "o", "c", "s">>, d.dir>>,
     ReposPath \o <<<<"c", "o", "r", "e">>, <<"l", "i", "b">>>>}

RaceDisks ==
    {DefaultDisk, [DefaultDisk EXCEPT !.kind = "file"],
     [DefaultDisk EXCEPT !.deny = "dir"], [DefaultDisk EXCEPT !.deny = "file"]}

RaceQueries == {<<"a">>, <<".">>, <<"A", " ", "a">>}

\* Another process deletes a file or a directory with all below it, at any
\* moment: before a search, between two of its steps, or after it. The disk
\* remembers whether a search had been answered by then.
Unlink(p) ==
    /\ p \in Deletable(disk)
    /\ NodeAt(disk, p).type # "missing"
    /\ disk' = [disk EXCEPT !.gone = @ \cup {p}, !.late = @ \/ pc = "done"]
    /\ UNCHANGED <<aside, startDisk, failed, pc, query, searchTerms, repoIdx, results, stack,
                   returned, response, statLog, listed, seen, readLog>>

InitRace == Init /\ disk \in RaceDisks

NextRace ==
    \/ \E q \in RaceQueries : RepositorySearch(q)
    \/ \E p \in Deletable(disk) : Unlink(p)
    \/ StatRepoThrows
    \/ StatRepoNotDirectory
    \/ StatRepoDirectory
    \/ ReaddirOk
    \/ ReaddirFails
    \/ EnterDirectory
    \/ SearchFile
    \/ SkipEntry
    \/ ReturnToParent
    \/ ReturnToSearch
    \/ Finish

SpecRace == InitRace /\ [][NextRace]_vars

\* ------------------------------------------- searches that come to an end
\* The directory that vanishes while a search is on its way.
LivePaths == {ReposPath \o << <<"c", "o", "r", "e">>, <<"l", "i", "b">> >>}

LiveQueries == {<<"a">>}

InitLive == Init /\ disk \in RaceDisks

NextLive ==
    \/ \E q \in LiveQueries : RepositorySearch(q)
    \/ \E p \in LivePaths : Unlink(p)
    \/ StatRepoThrows
    \/ StatRepoNotDirectory
    \/ StatRepoDirectory
    \/ ReaddirOk
    \/ ReaddirFails
    \/ EnterDirectory
    \/ SearchFile
    \/ SkipEntry
    \/ ReturnToParent
    \/ ReturnToSearch
    \/ Finish

\* The steps of a search between its files: each is the continuation of an
\* await on a promise of fs (stat, readdir), which the event loop runs once
\* the promise is settled, or synchronous code after one.
Walk ==
    \/ StatRepoThrows
    \/ StatRepoNotDirectory
    \/ StatRepoDirectory
    \/ ReaddirOk
    \/ ReaddirFails
    \/ EnterDirectory
    \/ SkipEntry
    \/ ReturnToParent
    \/ ReturnToSearch

\* SearchFile as 'seen' shows it: the step is possible whenever the entry
\* is a searchable file, and no other step at such an entry adds to 'seen'.
ReadsFile ==
    /\ pc = "entry"
    /\ Top.i <= Len(Top.entries)
    /\ Entry.type = "file"
    /\ IsSearchableFile(Entry.name)
    /\ seen' = Append(seen, FullPath)

\* Finish as pc shows it: the step is possible whenever the loop over the
\* repositories is over, and no other step leads from there to "done".
Answers ==
    /\ pc = "stat"
    /\ repoIdx > Len(repositories)
    /\ pc' = "done"

\* Searches on a disk where a directory may vanish, with an event loop that
\* does not leave a settled promise waiting for ever: the awaits of
\* fs.stat, fs.readdir and fs.readFile are continued, and the synchronous
\* code after the last of them runs.
SpecLive ==
    InitLive /\ [][NextLive]_vars
        /\ WF_vars(Walk) /\ WF_seen(ReadsFile) /\ WF_pc(Answers)

\* ------------------------------------------------ two searches at a time
\* The running search, as the record it is suspended as.
Current ==
    [pc |-> pc, query |-> query, searchTerms |-> searchTerms, repoIdx |-> repoIdx,
     results |-> results, stack |-> stack, returned |-> returned,
     response |-> response, statLog |-> statLog, listed |-> listed, seen |-> seen,
     readLog |-> readLog, failed |-> failed]

\* The search is at an await of fs.stat, fs.readdir or fs.readFile (what
\* lies between two of them runs without interruption), or it is not running.
AtAwait ==
    \/ pc \in {"idle", "done"}
    \/ pc = "stat" /\ repoIdx <= Len(repositories)
    \/ pc = "readdir"
    \/ /\ pc = "entry"
       /\ Top.i <= Len(Top.entries)
       /\ Entry.type = "file"
       /\ IsSearchableFile(Entry.name)

\* One results array for both invocations: the resumed one goes on with the
\* array of the one that is suspended.
SharedResults(other) == results

\* const results = [] is a local of the invocation: the resumed invocation
\* goes on with its own array.
ResumedResults(other) == other.results

\* The event loop suspends the running invocation at its await and resumes
\* the other one (or lets a request for it come in).
Switch ==
    /\ AtAwait
    /\ peer' = Current
    /\ pc' = peer.pc
    /\ query' = peer.query
    /\ searchTerms' = peer.searchTerms
    /\ repoIdx' = peer.repoIdx
    /\ results' = ResumedResults(peer)
    /\ stack' = peer.stack
    /\ returned' = peer.returned
    /\ response' = peer.response
    /\ statLog' = peer.statLog
    /\ listed' = peer.listed
    /\ seen' = peer.seen
    /\ readLog' = peer.readLog
    /\ failed' = peer.failed
    /\ UNCHANGED <<disk, startDisk, probe>>

PairDisks ==
    {DefaultDisk, [DefaultDisk EXCEPT !.kind = "file"], [DefaultDisk EXCEPT !.deny = "dir"]}

PairQueries == {<<"a">>, <<".">>}

InitPair == Init /\ disk \in PairDisks

NextPair ==
    \/ \E q \in PairQueries : RepositorySearch(q)
    \/ Switch
    \/ StatRepoThrows
    \/ StatRepoNotDirectory
    \/ StatRepoDirectory
    \/ ReaddirOk
    \/ ReaddirFails
    \/ EnterDirectory
    \/ SearchFile
    \/ SkipEntry
    \/ ReturnToParent
    \/ ReturnToSearch
    \/ Finish

SpecPair == InitPair /\ [][NextPair]_vars

\* ------------------------------------- findMatches and getDocumentTitle
\* Documents of one long line, a run of 'b' with an 'a' at its end: the
\* highlighted excerpt of the query 'a' is four characters longer than the
\* line, which is around the limit of createExcerpt.
LongContents ==
    {[i \in 1..n |-> IF i = n THEN "a" ELSE "b"] : n \in (ExcerptLimit - 7)..MaxLine}

\* Documents with a heading in the first line, in a later line after one of
\* another level, in line TitleLines and in the line after it, with no
\* space after the '#', and with no heading at all.
TitleContents ==
    {<<"#", " ", "H", "e", "l", "l", "o", " ", "W", "o", "r", "l", "d">>, <<"a", "\n", "#", "#", " ", "b", "\n", "#", " ", " ", "T", " ", "t", " ", "\n", "#", " ", "a">>, <<"#", "a">>, <<"a", "-", "b">>, <<>>,
     [i \in 1..(TitleLines - 1) |-> "\n"] \o <<"#", " ", "a">>,
     [i \in 1..TitleLines |-> "\n"] \o <<"#", " ", "a">>}

\* Documents of several lines: a matching line that is the first one, the
\* last one, one with two lines and more on both sides and a later matching
\* line after it, a document of two lines, and one line where a term with
\* a '.' occurs after a letter.
ContextContents ==
    {<<"a", "\n", "b", "\n", "b", "\n", "b", "\n", "b">>, <<"b", "\n", "b", "\n", "b", "\n", "b", "\n", "a">>, <<"b", "\n", "b", "\n", "b", "\n", "A", "\n", "b", "\n", "b", "\n", "b", "\n", "a">>, <<"b", "\n", "a">>, <<"a", "a", ".">>}

ProbeNames == {<<"m", "y", "-", "d", "o", "c", ".", "m", "d">>, <<"a", "_", "b", "-", "c", ".", "t", "x", "t">>, <<"R", "E", "A", "D", "M", "E">>, <<".", "e", "n", "v">>, <<"x", ".", "m", "d", "y", ".", "m", "d">>}

ProbeQueries == {<<"a">>, <<"b">>, <<>>, <<"b", " ", "a">>, <<"a", ".">>, <<"a", " ", "a">>, <<".", " ", ".">>}

\* A document is handed over: its content, the name of its file, a query.
Hand(content, fileName, q) ==
    /\ probe.at = "none"
    /\ probe' = [at |-> "given", content |-> content, fileName |-> fileName,
                 terms |-> Split(ToLowerCase(q), " ")]
    /\ UNCHANGED <<disk, pc, query, searchTerms, repoIdx, results, stack, returned,
                   response, statLog, listed, seen, readLog, failed, startDisk, peer>>

\* findMatches(content, searchTerms, filePath, repository, reposPath) for
\* the document, as a file of 'docs'.
CallFindMatches ==
    /\ probe.at = "given"
    /\ probe' = [at |-> "matched", content |-> probe.content,
                 fileName |-> probe.fileName, terms |-> probe.terms,
                 out |-> FindMatches(probe.content, probe.terms,
                                     ReposPath \o << <<"d", "o", "c", "s">>, probe.fileName >>,
                                     <<"d", "o", "c", "s">>, ReposPath)]
    /\ UNCHANGED <<disk, pc, query, searchTerms, repoIdx, results, stack, returned,
                   response, statLog, listed, seen, readLog, failed, startDisk, peer>>

\* getDocumentTitle(content, fileName) for the document.
CallGetDocumentTitle ==
    /\ probe.at = "given"
    /\ probe' = [at |-> "titled", content |-> probe.content,
                 fileName |-> probe.fileName, terms |-> probe.terms,
                 title |-> GetDocumentTitle(probe.content, probe.fileName)]
    /\ UNCHANGED <<disk, pc, query, searchTerms, repoIdx, results, stack, returned,
                   response, statLog, listed, seen, readLog, failed, startDisk, peer>>

InitDoc == Init /\ disk = DefaultDisk

NextDoc ==
    \/ \E content \in LongContents \cup TitleContents \cup ContextContents, fileName \in ProbeNames,
          q \in ProbeQueries : Hand(content, fileName, q)
    \/ CallFindMatches
    \/ CallGetDocumentTitle

SpecDoc == InitDoc /\ [][NextDoc]_vars

\* =================================================================== claims
\* What the claims speak of, stated apart from the operators of the code.

Range(seq) == {seq[i] : i \in 1..Len(seq)}

IndexOf(seq, x) == CHOOSE i \in 1..Len(seq) : seq[i] = x

RECURSIVE Flatten(_)
\* The concatenation of a sequence of sequences.
Flatten(ss) == IF ss = <<>> THEN <<>> ELSE Head(ss) \o Flatten(Tail(ss))

RECURSIVE OccurrencesFrom(_, _, _)
\* The non-overlapping occurrences of t as a substring of s from position i on.
OccurrencesFrom(s, t, i) ==
    LET at == {k \in i..(Len(s) - Len(t) + 1) : SubSeq(s, k, k + Len(t) - 1) = t}
    IN  IF at = {} THEN 0
        ELSE LET first == CHOOSE k \in at : \A j \in at : k <= j
             IN  1 + OccurrencesFrom(s, t, IF t = <<>> THEN first + 1 ELSE first + Len(t))

RECURSIVE OccurrenceSum(_, _)
\* The occurrences in s of every term, summed.
OccurrenceSum(s, terms) ==
    IF terms = <<>> THEN 0
    ELSE OccurrencesFrom(s, Head(terms), 1) + OccurrenceSum(s, Tail(terms))

\* The content of the document a result names.
ContentOf(result) == NodeAt(disk, ReposPath \o result.path).content

WhiteSpace == {" ", "\t", "\n", "\r"}

\* A name is eligible: it ends, in any case, with a listed extension that
\* some character precedes, or it is README or LICENSE.
EligibleName(name) ==
    \/ \E i \in 1..Len(searchableExtensions) :
          LET e == searchableExtensions[i]
          IN  /\ Len(name) > Len(e)
              /\ ToLowerCase(SubSeq(name, Len(name) - Len(e) + 1, Len(name))) = e
    \/ name \in {<<"R", "E", "A", "D", "M", "E">>, <<"L", "I", "C", "E", "N", "S", "E">>}

\* A directory name the traversal must not enter.
ExcludedName(name) ==
    \/ (name # <<>> /\ name[1] = ".")
    \/ name \in {<<"n", "o", "d", "e", "_", "m", "o", "d", "u", "l", "e", "s">>, <<"d", "i", "s", "t">>, <<"b", "u", "i", "l", "d">>, <<".", "n", "e", "x", "t">>, <<"s", "t", "o", "r", "y", "b", "o", "o", "k", "-", "s", "t", "a", "t", "i", "c">>}

\* Every result held anywhere: returned, collected, or in an activation.
AllResults ==
    Range(returned) \cup Range(results)
        \cup UNION {Range(stack[k].results) : k \in 1..Len(stack)}

RECURSIVE EntriesBelow(_, _)
\* The entries below a directory node in depth-first listing order (a
\* directory's subtree before its next sibling), as paths under 'repos'.
EntriesBelow(node, path) ==
    Flatten([i \in 1..Len(node.entries) |->
        IF node.entries[i].type = "dir"
        THEN EntriesBelow(node.entries[i], Append(path, node.entries[i].name))
        ELSE << Append(path, node.entries[i].name) >>])

\* The encounter order: the repositories in the order of the fixed list, and
\* the entries of each in depth-first listing order.
EncounterOrder ==
    Flatten([r \in 1..Len(repositories) |->
        LET root == NodeAt(disk, Join(ReposPath, repositories[r]))
        IN  IF root.type = "dir" THEN EntriesBelow(root, << repositories[r] >>)
            ELSE <<>>])

RECURSIVE MatchingBelow(_, _, _)
\* The documents below a directory node that a search must report: eligible
\* readable files with a match, outside every excluded or closed directory.
MatchingBelow(node, path, repository) ==
    IF ~node.readable THEN {}
    ELSE UNION {
        LET e == node.entries[i]
            p == Append(path, e.name)
        IN  IF e.type = "dir" /\ ~ExcludedName(e.name)
            THEN MatchingBelow(e, p, repository)
            ELSE IF /\ e.type = "file"
                    /\ EligibleName(e.name)
                    /\ e.readable
                    /\ FindMatches(e.content, searchTerms, ReposPath \o p,
                                   repository, ReposPath).matches # <<>>
            THEN {p}
            ELSE {}
        : i \in 1..Len(node.entries)}

\* C1: for a non-empty query, the score of every returned result is the sum
\* over the terms of the non-overlapping substring occurrences of the term in
\* the lowercased content of the document.
C1_ScoreIsOccurrenceSum ==
    (pc = "done" /\ query # <<>>) =>
        \A i \in 1..Len(returned) :
            returned[i].score = OccurrenceSum(ToLowerCase(ContentOf(returned[i])), searchTerms)

\* C2: every returned result has a score of at least 1, and a document in
\* which no query term occurs is never returned.
C2_NoFalsePositive ==
    pc = "done" =>
        \A i \in 1..Len(returned) :
            /\ returned[i].score >= 1
            /\ \E t \in 1..Len(searchTerms) :
                  Includes(ToLowerCase(ContentOf(returned[i])), searchTerms[t])

\* C3: the returned list is sorted by score in non-increasing order.
C3_SortedByScore ==
    pc = "done" =>
        \A i \in 1..(Len(returned) - 1) : returned[i].score >= returned[i + 1].score

\* C3 happens: a search returned three or more results, and a document met
\* later in the traversal stands ahead of one met earlier.
C3_Witness ==
    /\ pc = "done"
    /\ Len(returned) >= 3
    /\ \E i, j \in 1..Len(returned) :
          /\ i < j
          /\ returned[i].score > returned[j].score
          /\ IndexOf(readLog, ReposPath \o returned[i].path)
                > IndexOf(readLog, ReposPath \o returned[j].path)

\* C4: results of equal score are returned in encounter order: by the
\* position of the repository in the list, then by depth-first listing order.
C4_TiesInEncounterOrder ==
    pc = "done" =>
        /\ \A i \in 1..Len(returned) : returned[i].path \in Range(EncounterOrder)
        /\ \A i, j \in 1..Len(returned) :
              (i < j /\ returned[i].score = returned[j].score) =>
                  IndexOf(EncounterOrder, returned[i].path)
                      < IndexOf(EncounterOrder, returned[j].path)

\* C4 happens: the returned list holds a tie across two repositories and a
\* tie inside one, and the sort moved a later document ahead of them.
C4_Witness ==
    /\ pc = "done"
    /\ \E i, j \in 1..Len(returned) :
          /\ i < j
          /\ IndexOf(EncounterOrder, returned[i].path)
                > IndexOf(EncounterOrder, returned[j].path)
    /\ \E i, j \in 1..Len(returned) :
          /\ i < j
          /\ returned[i].score = returned[j].score
          /\ returned[i].repository # returned[j].repository
    /\ \E i, j \in 1..Len(returned) :
          /\ i < j
          /\ returned[i].score = returned[j].score
          /\ returned[i].repository = returned[j].repository

\* C5: a file the traversal meets is read exactly when its name is eligible,
\* a search reads nothing else, and every result comes from a file with an
\* eligible name.
C5_OnlyEligibleFilesRead ==
    /\ \A i \in 1..Len(seen) :
          NodeAt(disk, seen[i]).type = "file" =>
              (seen[i] \in Range(readLog) <=> EligibleName(Basename(seen[i])))
    /\ pc # "read" =>
           \A p \in Range(readLog) :
               NodeAt(disk, p).type = "file" /\ EligibleName(Basename(p))
    /\ \A r \in AllResults : EligibleName(Basename(r.path))

\* C5 happens: a search ended that met a '.png' file whose content matches
\* the query, never read it, and returned other documents.
C5_Witness ==
    /\ pc = "done"
    /\ disk.file = <<"a", ".", "p", "n", "g">>
    /\ Join(Join(ReposPath, <<"d", "o", "c", "s">>), <<"a", ".", "p", "n", "g">>) \in Range(seen)
    /\ Join(Join(ReposPath, <<"d", "o", "c", "s">>), <<"a", ".", "p", "n", "g">>) \notin Range(readLog)
    /\ FindMatches(<<"a">>, searchTerms, << <<"x">> >>, <<>>, <<>>).matches # <<>>
    /\ returned # <<>>

\* C6: no directory below a repository root whose name is excluded is ever
\* listed, and no file read or reported lies beneath one.
C6_ExcludedNeverEntered ==
    /\ \A p \in Range(listed) :
          \A k \in (Len(ReposPath) + 2)..Len(p) : ~ExcludedName(p[k])
    /\ \A p \in Range(readLog) :
          \A k \in (Len(ReposPath) + 2)..(Len(p) - 1) : ~ExcludedName(p[k])
    /\ \A r \in AllResults :
          \A k \in 2..(Len(r.path) - 1) : ~ExcludedName(r.path[k])

\* C6 happens: a search ended that met an excluded directory at depth one
\* and at depth two, each holding an eligible file that matches the query.
C6_Witness ==
    /\ pc = "done"
    /\ ExcludedName(disk.dir)
    /\ Join(Join(ReposPath, <<"d", "o", "c", "s">>), disk.dir) \in Range(seen)
    /\ Join(Join(Join(ReposPath, <<"c", "o", "r", "e">>), <<"l", "i", "b">>), disk.dir) \in Range(seen)
    /\ FindMatches(<<"A", "\n", "a", ".", "a">>, searchTerms, << <<"x">> >>, <<>>, <<>>).matches # <<>>
    /\ FindMatches(<<"a">>, searchTerms, << <<"x">> >>, <<>>, <<>>).matches # <<>>
    /\ returned # <<>>

\* C7: the empty query returns the empty list and the 'no matching
\* documents' response, whatever the repositories hold.
C7_EmptyQueryNoResults ==
    (pc = "done" /\ query = <<>>) => (returned = <<>> /\ response.kind = "none")

\* C8: no search term is empty and none holds a whitespace character.
C8_TermsAreWords ==
    pc # "idle" =>
        \A t \in 1..Len(searchTerms) :
            /\ searchTerms[t] # <<>>
            /\ \A k \in 1..Len(searchTerms[t]) : searchTerms[t][k] \notin WhiteSpace

\* C9: when the base 'repos' directory cannot be accessed the search ends
\* with the error response.
C9_BaseFailureReported ==
    (pc = "done" /\ ~disk.base) => response.kind = "error"

\* C10: a root that is missing or no directory raises no error, and every
\* matching document of every root that is a directory is returned.
C10_OtherRootsInFull ==
    pc = "done" =>
        /\ response.kind # "error"
        /\ \A r \in 1..Len(repositories) :
              LET root == NodeAt(disk, Join(ReposPath, repositories[r]))
              IN  IF root.type = "dir"
                  THEN \A p \in MatchingBelow(root, << repositories[r] >>, repositories[r]) :
                          \E i \in 1..Len(returned) :
                              /\ returned[i].path = p
                              /\ returned[i].repository = repositories[r]
                  ELSE \A i \in 1..Len(returned) :
                          returned[i].repository # repositories[r]

\* C10 happens: 'docs' is a regular file, six other roots are missing, and
\* the search returned documents of 'core' and of 'graphql'.
C10_Witness ==
    /\ pc = "done"
    /\ disk.kind = "file"
    /\ Len(statLog) = Len(repositories)
    /\ \E i \in 1..Len(returned) : returned[i].repository = <<"c", "o", "r", "e">>
    /\ \E i \in 1..Len(returned) : returned[i].repository = <<"g", "r", "a", "p", "h", "q", "l">>

\* p is q, or lies below it.
Beneath(p, q) == Len(q) <= Len(p) /\ SubSeq(p, 1, Len(q)) = q

\* The documents of the disk the search began on that it must report.
ExpectedAtStart ==
    UNION {LET root == NodeAt(startDisk, Join(ReposPath, repositories[k]))
           IN  IF root.type = "dir"
               THEN MatchingBelow(root, << repositories[k] >>, repositories[k])
               ELSE {}
           : k \in 1..Len(repositories)}

\* The path under 'repos' was deleted, or something above it was.
Deleted(p) == \E g \in disk.gone : Beneath(ReposPath \o p, g)

\* C11: when listing a directory fails, because it is closed or because it
\* was deleted after its parent listed it, the search still answers without
\* an error, nothing below that directory is in the list, and every matching
\* document that was not deleted, in sibling entries and in other roots, is.
C11_FailedListingIsLocal ==
    pc = "done" =>
        /\ response.kind \in {"none", "found"}
        /\ \A f \in Range(failed) \cap Range(listed) :
               \A r \in Range(returned) : ~Beneath(ReposPath \o r.path, f)
        /\ \A p \in ExpectedAtStart :
               ~Deleted(p) => \E r \in Range(returned) : r.path = p

\* A directory was deleted after its parent listed it, its listing failed,
\* and the list holds documents of the same parent from before and after it.
C11_Witness ==
    /\ pc = "done"
    /\ \E f \in (Range(failed) \cap Range(listed) \cap Range(seen)) \cap disk.gone :
          \E r1, r2 \in Range(returned) :
              LET p1 == ReposPath \o r1.path
                  p2 == ReposPath \o r2.path
              IN  /\ SubSeq(p1, 1, Len(p1) - 1) = SubSeq(f, 1, Len(f) - 1)
                  /\ SubSeq(p2, 1, Len(p2) - 1) = SubSeq(f, 1, Len(f) - 1)
                  /\ IndexOf(seen, p1) < IndexOf(seen, f)
                  /\ IndexOf(seen, f) < IndexOf(seen, p2)

\* C12: when reading an eligible file fails, also because it was deleted
\* after its directory was listed, the search still answers without an
\* error, the file has no result, and every later entry of the same
\* directory that was not deleted is visited and, when it is a matching
\* document, reported.
C12_FailedReadIsLocal ==
    pc = "done" =>
        /\ response.kind \in {"none", "found"}
        /\ \A f \in Range(failed) \cap Range(readLog) :
               LET parent == SubSeq(f, 1, Len(f) - 1)
                   dir == NodeAt(startDisk, parent)
                   at == CHOOSE i \in 1..Len(dir.entries) :
                             dir.entries[i].name = f[Len(f)]
               IN  /\ \A r \in Range(returned) : ReposPath \o r.path # f
                   /\ \A j \in (at + 1)..Len(dir.entries) :
                          LET sibling == Append(parent, dir.entries[j].name)
                          IN  ~Deleted(Tail(sibling)) =>
                                  /\ sibling \in Range(seen)
                                  /\ Tail(sibling) \in ExpectedAtStart =>
                                         \E r \in Range(returned) :
                                             r.path = Tail(sibling)

\* A file was deleted after its directory was listed, reading it failed, and
\* the list holds a document of the same directory met after it.
C12_Witness ==
    /\ pc = "done"
    /\ \E f \in (Range(failed) \cap Range(readLog)) \cap disk.gone :
          \E r \in Range(returned) :
              LET p == ReposPath \o r.path
              IN  /\ SubSeq(p, 1, Len(p) - 1) = SubSeq(f, 1, Len(f) - 1)
                  /\ IndexOf(seen, f) < IndexOf(seen, p)

\* C20: whatever was searched and deleted before, a search during which the
\* disk did not change returns the list a first search of that disk returns.
C20_NoStateAcrossQueries ==
    (pc = "done" /\ disk = startDisk) =>
        returned = SearchRepositoryDocuments(disk, query)

\* A search was answered, then something was deleted, then a search ran on
\* the changed disk and returned a list the disk of before would not give.
C20_Witness ==
    /\ pc = "done"
    /\ disk = startDisk
    /\ disk.late
    /\ returned # <<>>
    /\ returned # SearchRepositoryDocuments([disk EXCEPT !.gone = {}], query)

\* Every result an invocation holds before it returns, in one sequence.
Held == results \o Flatten([k \in 1..Len(stack) |-> stack[k].results])

\* C13: a document has at most one result in a query: findMatches gives no
\* or one record for a file, and no two results that a search holds or
\* returns have the same path.
C13_OneResultPerDocument ==
    /\ \A i, j \in 1..Len(returned) : i # j => returned[i].path # returned[j].path
    /\ \A i, j \in 1..Len(Held) : i # j => Held[i].path # Held[j].path
    /\ (/\ pc = "entry"
        /\ Top.i <= Len(Top.entries)
        /\ Entry.type = "file"
        /\ IsSearchableFile(Entry.name)
        /\ ~FileThrows) => Len(FileMatches) <= 1

\* A returned document in which several lines match and whose score counts
\* several occurrences.
C13_Witness ==
    /\ pc = "done"
    /\ \E r \in Range(returned) : r.matchCount >= 2 /\ r.score >= 3

\* C16: the response shows the first min(M, 10) of the M sorted results in
\* their order, reports M as found and carries the notice exactly when
\* M > 10; the returned list itself holds every matching document.
C16_ResponseCappedToTen ==
    pc = "done" =>
        LET M == Len(returned)
            n == IF M < 10 THEN M ELSE 10
        IN  /\ response.found = M
            /\ Len(response.shown) = n
            /\ response.shown = SubSeq(returned, 1, n)
            /\ response.notice <=> M > 10
            /\ \A p \in ExpectedAtStart : \E r \in Range(returned) : r.path = p

\* A search that found more than ten documents: ten are shown, with the
\* notice, and the returned list holds them all.
C16_Witness ==
    /\ pc = "done"
    /\ Len(returned) > 10
    /\ Len(response.shown) = 10
    /\ response.notice
    /\ Cardinality(ExpectedAtStart) = Len(returned)

RECURSIVE TouchedBelow(_, _)
\* The entries a walk of a listed directory touches, in order: each entry,
\* and after a directory that is entered all that is touched below it,
\* before the next entry.
TouchedBelow(node, path) ==
    Flatten([i \in 1..Len(node.entries) |->
        LET e == node.entries[i]
        IN  << Append(path, e.name) >>
                \o (IF e.type = "dir" /\ ~ExcludedName(e.name) /\ e.readable
                    THEN TouchedBelow(e, Append(path, e.name))
                    ELSE <<>>)])

\* All that is touched under the first n repository roots, root after root.
TouchedUpTo(n) ==
    Flatten([r \in 1..n |->
        LET root == NodeAt(disk, Join(ReposPath, repositories[r]))
        IN  IF root.type = "dir" /\ root.readable
            THEN TouchedBelow(root, Join(ReposPath, repositories[r]))
            ELSE <<>>])

\* The members of seq that are in set, in the order of seq.
Among(seq, set) == SelectSeq(seq, LAMBDA x : x \in set)

\* C18: the traversal is sequential and depth-first. The roots are stat'ed
\* in the order of the list; whenever a root is about to be stat'ed all
\* under the roots before it has been processed and nothing under a later
\* root has been touched; within a directory all below a subdirectory is
\* touched before the next sibling; and every calling searchInDirectory
\* waits at the entry of the one it called, so that only the innermost one
\* has an operation under way.
C18_SequentialDepthFirst ==
    /\ statLog = [k \in 1..Len(statLog) |-> Join(ReposPath, repositories[k])]
    /\ seen = SubSeq(TouchedUpTo(Len(statLog)), 1, Len(seen))
    /\ pc \in {"stat", "done"} => seen = TouchedUpTo(Len(statLog))
    /\ pc # "read" => readLog = Among(seen, Range(readLog))
    /\ Among(listed, Range(seen)) = Among(seen, Range(listed))
    /\ Among(listed, Range(statLog)) = Among(statLog, Range(listed))
    /\ \A k \in 1..(Len(stack) - 1) :
           /\ stack[k].i <= Len(stack[k].entries)
           /\ stack[k + 1].dirPath
                  = Join(stack[k].dirPath, stack[k].entries[stack[k].i].name)

\* A finished search that went into a subdirectory, touched an entry below
\* it, then a sibling of it, and later entries of another root.
C18_Witness ==
    /\ pc = "done"
    /\ \E i, j, k, l \in 1..Len(seen) :
          /\ i < j /\ j < k /\ k < l
          /\ seen[i] \in Range(listed)
          /\ Beneath(seen[j], seen[i])
          /\ SubSeq(seen[k], 1, Len(seen[k]) - 1) = SubSeq(seen[i], 1, Len(seen[i]) - 1)
          /\ seen[l][2] # seen[i][2]

\* C15: when a read request, with or without a repository, leads to a path
\* where nothing is, readRepositoryDocument answers with the read error,
\* which names the path asked for and the path tried and points to the
\* search tool; nothing is thrown.
C15_MissingDocumentReported ==
    (pc = "read" /\ NodeAt(disk, readLog[1]).type = "missing") =>
        /\ response.kind = "readError"
        /\ response.message.path = readLog[1]
        /\ NormalizeFrom(ReposPath
                           \o (IF response.repository # <<>>
                               THEN << response.repository >> ELSE <<>>)
                           \o response.path, <<>>) = readLog[1]
        /\ response.suggests = "repository_search"

\* A read request with a repository for a path of two segments that is in
\* another repository only: the read error names it.
C15_Witness ==
    /\ pc = "read"
    /\ response.kind = "readError"
    /\ response.repository = <<"d", "o", "c", "s">>
    /\ Len(response.path) = 2
    /\ NodeAt(disk, readLog[1]).type = "missing"
    /\ NodeAt(disk, ReposPath \o response.path).type = "file"

\* Every result the suspended invocation holds or has returned.
PeerResults ==
    Range(peer.returned) \cup Range(peer.results)
        \cup UNION {Range(peer.stack[k].results) : k \in 1..Len(peer.stack)}

\* C19: of two invocations whose steps interleave at the awaits, each
\* returns the list it returns when it runs alone on the disk, and at every
\* moment each holds results of that list only, none of the other's.
C19_InvocationsShareNothing ==
    /\ pc = "done" => returned = SearchRepositoryDocuments(disk, query)
    /\ peer.pc = "done" => peer.returned = SearchRepositoryDocuments(disk, peer.query)
    /\ AllResults \subseteq Range(SearchRepositoryDocuments(disk, query))
    /\ PeerResults \subseteq Range(SearchRepositoryDocuments(disk, peer.query))

\* Two invocations with different queries are both in the middle of their
\* walks, each holding results, and no result is held by both.
C19_Witness ==
    /\ pc = "entry"
    /\ peer.pc \in {"stat", "readdir", "entry"}
    /\ query # peer.query
    /\ peer.seen # <<>>
    /\ AllResults # {}
    /\ PeerResults # {}
    /\ AllResults \cap PeerResults = {}

\* The excerpt of the handed document before its length is limited: the
\* context of its first relevant line with the terms highlighted, and the
\* empty text when it has no relevant line.
Highlighted ==
    LET relevant == RelevantLines(probe.content, probe.terms)
    IN  IF relevant = {} THEN <<>>
        ELSE Highlight(ContextBlock(Split(probe.content, "\n"),
                                    CHOOSE i \in relevant : \A j \in relevant : i <= j),
                       probe.terms)

\* C14: the excerpt of a result is never longer than 503 characters; it is
\* the first 500 characters of the highlighted excerpt with '...' after
\* them when that is longer than 500 characters, and the highlighted excerpt
\* itself, with nothing after it, when it is not.
C14_ExcerptLengthLimited ==
    probe.at = "matched" =>
        \A r \in Range(probe.out.matches) :
            /\ Len(r.excerpt) <= 503
            /\ Len(Highlighted) > 500 =>
                   r.excerpt = SubSeq(Highlighted, 1, 500) \o <<".", ".", ".">>
            /\ Len(Highlighted) <= 500 => r.excerpt = Highlighted

\* A result whose highlighted excerpt has 501 characters: its excerpt has
\* 503, the last three of them the marker.
C14_Witness ==
    /\ probe.at = "matched"
    /\ probe.out.matches # <<>>
    /\ Len(Highlighted) = 501
    /\ Len(probe.out.matches[1].excerpt) = 503
    /\ SubSeq(probe.out.matches[1].excerpt, 501, 503) = <<".", ".", ".">>

\* s without the white space at its ends.
Stripped(s) ==
    LET ink == {i \in 1..Len(s) : s[i] \notin WhiteSpace}
    IN  IF ink = {} THEN <<>>
        ELSE SubSeq(s, CHOOSE i \in ink : \A j \in ink : i <= j,
                       CHOOSE i \in ink : \A j \in ink : j <= i)

\* The title the claim gives a document: the text after the '# ' of the
\* first of its first ten lines that begins so, stripped; with no such line
\* the file name without the extension at its end, '-' and '_' as spaces.
ExpectedTitle(content, fileName) ==
    LET lines == Split(content, "\n")
        heads == {i \in 1..Len(lines) :
                     i <= 10 /\ Len(lines[i]) >= 2 /\ SubSeq(lines[i], 1, 2) = <<"#", " ">>}
        dots == {i \in 2..Len(fileName) : fileName[i] = "."}
        stem == IF dots = {} THEN fileName
                ELSE SubSeq(fileName, 1, (CHOOSE i \in dots : \A j \in dots : j <= i) - 1)
    IN  IF heads # {}
        THEN LET first == CHOOSE i \in heads : \A j \in heads : i <= j
             IN  Stripped(SubSeq(lines[first], 3, Len(lines[first])))
        ELSE [i \in 1..Len(stem) |-> IF stem[i] \in {"-", "_"} THEN " " ELSE stem[i]]

\* C17: getDocumentTitle gives the stripped text after the marker of the
\* first heading line among the first ten lines, and with no such line the
\* file name with its extension stripped and '-' and '_' made spaces.
C17_TitleExtraction ==
    probe.at = "titled" => probe.title = ExpectedTitle(probe.content, probe.fileName)

\* The titles agree for every file name in which the extension occurs once.
TitleAgreesForPlainNames ==
    (probe.at = "titled" /\ probe.fileName # <<"x", ".", "m", "d", "y", ".", "m", "d">>) =>
        probe.title = ExpectedTitle(probe.content, probe.fileName)

\* C21: every result has a score above 0 and at least one line that holds a
\* term, so that its matchCount is at least 1 and its excerpt is not the
\* empty one of createExcerpt.
C21_EmittedResultHasMatchingLine ==
    \A r \in AllResults : r.score > 0 /\ r.matchCount >= 1 /\ r.excerpt # <<>>

\* A term that is no regular expression: it opens more groups than it closes.
InvalidTerm(t) ==
    Cardinality({i \in 1..Len(t) : t[i] = "("}) > Cardinality({i \in 1..Len(t) : t[i] = ")"})

\* C27: when a term of the query is no regular expression, no file adds a
\* result: the search holds none at any moment and answers with the empty
\* list and the response for no match, not with an error.
C27_InvalidTermFindsNothing ==
    (pc \in {"stat", "readdir", "entry", "done"}
        /\ \E k \in 1..Len(searchTerms) : InvalidTerm(searchTerms[k])) =>
            /\ AllResults = {}
            /\ pc = "done" => returned = <<>> /\ response.kind = "none"

\* A finished search with a term that is no regular expression read a
\* document in which that term occurs, and answered that nothing matches.
C27_Witness ==
    /\ pc = "done"
    /\ returned = <<>>
    /\ response.kind = "none"
    /\ \E k \in 1..Len(searchTerms) :
          /\ InvalidTerm(searchTerms[k])
          /\ \E p \in Range(readLog) \ Range(failed) :
                 OccurrencesFrom(ToLowerCase(NodeAt(disk, p).content), searchTerms[k], 1) > 0

\* C28: the repository of a result is the label of the root it was found
\* under, one of the configured ones, and its path leads from the base
\* directory to the file, so that the first segment of the path is the
\* repository.
C28_PathBeginsWithRepository ==
    /\ \A r \in AllResults :
          /\ r.repository \in Range(repositories)
          /\ Len(r.path) >= 2
          /\ r.path[1] = r.repository
          /\ NodeAt(disk, ReposPath \o r.path).type = "file"
    /\ \A k \in 1..Len(stack) : \A r \in Range(stack[k].results) :
          /\ r.repository = repositories[repoIdx]
          /\ Beneath(ReposPath \o r.path, stack[k].dirPath)

\* A finished search returned documents of two repositories, one of them
\* from a directory below the root.
C28_Witness ==
    /\ pc = "done"
    /\ \E r1, r2 \in Range(returned) :
          /\ r1.repository # r2.repository
          /\ Len(r1.path) >= 3
          /\ r1.path[1] = r1.repository
          /\ r2.path[1] = r2.repository

\* C30: '.env', '.lock' and '.config' are listed extensions, yet a file whose
\* name is a dot and then no further dot is never read, while a file whose
\* name begins with a dot and ends in a listed extension is read: a leading
\* dot keeps the traversal out of directories only.
C30_DotFilesByExtensionOnly ==
    /\ {<<".", "e", "n", "v">>, <<".", "l", "o", "c", "k">>, <<".", "c", "o", "n", "f", "i", "g">>} \subseteq Range(searchableExtensions)
    /\ pc # "read" =>
          \A p \in Range(seen) :
              LET name == Basename(p)
                  dots == {i \in 1..Len(name) : name[i] = "."}
                  last == CHOOSE i \in dots : \A j \in dots : j <= i
              IN  (NodeAt(disk, p).type = "file" /\ name[1] = ".") =>
                      /\ dots = {1} => p \notin Range(readLog)
                      /\ (dots # {1}
                            /\ ToLowerCase(SubSeq(name, last, Len(name)))
                                   \in Range(searchableExtensions)) =>
                             p \in Range(readLog)

\* A finished search met the file '.env', whose content matches the query,
\* did not read it, and returned other documents.
C30_Witness ==
    /\ pc = "done"
    /\ disk.file = <<".", "e", "n", "v">>
    /\ ReposPath \o << <<"d", "o", "c", "s">>, <<".", "e", "n", "v">> >> \in Range(seen) \ Range(readLog)
    /\ OccurrencesFrom(NodeAt(disk, ReposPath \o << <<"d", "o", "c", "s">>, <<".", "e", "n", "v">> >>).content,
                       searchTerms[1], 1) > 0
    /\ \A r \in Range(returned) : r.path # << <<"d", "o", "c", "s">>, <<".", "e", "n", "v">> >>
    /\ returned # <<>>

\* A finished search met a file whose name begins with a dot and ends in a
\* listed extension, and returned it.
HiddenFileWithExtensionFound ==
    /\ pc = "done"
    /\ disk.file = <<".", "e", ".", "j", "s", "o", "n">>
    /\ \E r \in Range(returned) : r.path = << <<"d", "o", "c", "s">>, <<".", "e", ".", "j", "s", "o", "n">> >>

\* C25: no request lets an exception leave repositorySearch or
\* readRepositoryDocument, not even one without arguments or without its
\* query or path: what fails is answered with the text of an error response.
C25_FailuresAreTextResponses ==
    pc \in {"done", "read", "failed"} =>
        /\ response.kind # "thrown"
        /\ pc = "failed" => response.kind \in {"error", "readError"}

\* A request whose arguments hold no query or no path is answered with the
\* text of an error response.
MissingArgumentAnswered ==
    (pc = "failed" /\ response.kind # "thrown") =>
        response.kind \in {"error", "readError"}

\* C26: whatever repository and path a read request gives, the file that is
\* read lies in the base directory 'repos', and in the root of the
\* repository when one is given.
C26_ReadStaysInside ==
    (pc = "read" /\ response.kind = "document") =>
        /\ Beneath(readLog[1], ReposPath)
        /\ response.repository # <<>> =>
               Beneath(readLog[1], ReposPath \o << response.repository >>)

\* The line feeds of a text, and the place in it where its k-th line begins
\* and where it ends.
LineFeeds(text) == {p \in 1..Len(text) : text[p] = "\n"}

LineStart(text, k) ==
    IF k = 1 THEN 1
    ELSE 1 + CHOOSE p \in LineFeeds(text) :
                 Cardinality({q \in LineFeeds(text) : q < p}) = k - 2

LineEnd(text, k) ==
    IF k = Cardinality(LineFeeds(text)) + 1 THEN Len(text)
    ELSE (CHOOSE p \in LineFeeds(text) :
              Cardinality({q \in LineFeeds(text) : q < p}) = k - 1) - 1

\* The lines of the document handed over whose lowercase form contains a term.
MatchingLines ==
    {k \in 1..(Cardinality(LineFeeds(probe.content)) + 1) :
        \E t \in Range(probe.terms) :
            Includes(ToLowerCase(SubSeq(probe.content, LineStart(probe.content, k),
                                        LineEnd(probe.content, k))), t)}

\* The part of the document from two lines before its first matching line
\* to two lines after it, as far as the document has them.
ExpectedContext ==
    LET n == Cardinality(LineFeeds(probe.content)) + 1
        i == CHOOSE k \in MatchingLines : \A j \in MatchingLines : k <= j
        from == IF i - 2 < 1 THEN 1 ELSE i - 2
        to == IF i + 2 > n THEN n ELSE i + 2
    IN  SubSeq(probe.content, LineStart(probe.content, from), LineEnd(probe.content, to))

\* A text without the characters of its markers.
Unmarked(text) == SelectSeq(text, LAMBDA c : c # "*")

\* C22: the excerpt of a result comes from the first line of the document
\* whose lowercase form contains a term, never from a later one: without its
\* markers, an excerpt that was not cut is that line with the two lines
\* before it and the two lines after it, as far as the document has them.
C22_ExcerptFromFirstMatchingLine ==
    (probe.at = "matched" /\ MatchingLines # {}) =>
        \A r \in Range(probe.out.matches) :
            Len(r.excerpt) < ExcerptLimit => Unmarked(r.excerpt) = ExpectedContext

\* A document with a matching line in its middle and a later one after it
\* gave an excerpt of five lines that end before the later one.
C22_Witness ==
    /\ probe.at = "matched"
    /\ probe.content = <<"b", "\n", "b", "\n", "b", "\n", "A", "\n", "b", "\n", "b", "\n", "b", "\n", "a">>
    /\ probe.terms = << <<"a">> >>
    /\ Cardinality(MatchingLines) = 2
    /\ \E r \in Range(probe.out.matches) : Unmarked(r.excerpt) = <<"b", "\n", "b", "\n", "A", "\n", "b", "\n", "b">>

\* The places of a text where a term occurs, whatever the case, taken from
\* the left with none beginning inside the one before it.
OccurrencesIn(text, term) ==
    Selected({p \in 1..(Len(text) - Len(term) + 1) :
                 ToLowerCase(SubSeq(text, p, p + Len(term) - 1)) = ToLowerCase(term)},
             Len(term))

\* The number of marker characters of an excerpt before the p-th character
\* that is none.
StarsBefore(excerpt, p) ==
    (CHOOSE e \in 1..Len(excerpt) :
         /\ excerpt[e] # "*"
         /\ Cardinality({f \in 1..(e - 1) : excerpt[f] # "*"}) = p - 1) - p

\* The characters p..(p + len - 1) of the text of an excerpt stand together
\* between a '**' that opens and the '**' that closes it.
Enclosed(excerpt, p, len) ==
    \A q \in p..(p + len - 1) :
        /\ StarsBefore(excerpt, q) = StarsBefore(excerpt, p)
        /\ StarsBefore(excerpt, q) % 4 = 2

\* The statement of C23 for the document handed over.
EveryOccurrenceEnclosed ==
    \A r \in Range(probe.out.matches) :
        Len(r.excerpt) < ExcerptLimit =>
            /\ Unmarked(r.excerpt) = ExpectedContext
            /\ \A p \in OccurrencesIn(ExpectedContext, probe.terms[1]) :
                   Enclosed(r.excerpt, p, Len(probe.terms[1]))

\* C23: for a query of one term, an excerpt that was not cut gives back the
\* context block when every '**' is taken out of it, and every occurrence
\* of the term in the block, whatever its case, stands in a '**' pair.
C23_EveryOccurrenceHighlighted ==
    (probe.at = "matched" /\ Len(probe.terms) = 1 /\ probe.terms[1] # <<>>
        /\ MatchingLines # {}) => EveryOccurrenceEnclosed

\* The same holds for every term that has no '.' in it.
PlainTermOccurrencesHighlighted ==
    (probe.at = "matched" /\ Len(probe.terms) = 1 /\ probe.terms[1] # <<>>
        /\ MatchingLines # {} /\ ~Includes(probe.terms[1], <<".">>)) =>
            EveryOccurrenceEnclosed

\* The score findMatches gives the document handed over for a list of terms:
\* that of its record, and 0 when it gives none.
ScoreFor(terms) ==
    LET out == FindMatches(probe.content, terms,
                           ReposPath \o << <<"d", "o", "c", "s">>, probe.fileName >>, <<"d", "o", "c", "s">>, ReposPath)
    IN  IF out.matches = <<>> THEN 0 ELSE out.matches[1].score

\* The score of the call that was made.
ScoreGiven == IF probe.out.matches = <<>> THEN 0 ELSE probe.out.matches[1].score

\* C29: the terms of a query are a list: a term given twice counts twice,
\* so the score for 't t' is two times the score for 't', and the score for
\* two terms is the same in either order.
C29_RepeatedTermCountsTwice ==
    (probe.at = "matched" /\ ~probe.out.threw /\ Len(probe.terms) = 2) =>
        /\ probe.terms[1] = probe.terms[2] =>
               ScoreGiven = 2 * ScoreFor(<< probe.terms[1] >>)
        /\ ScoreGiven = ScoreFor(<< probe.terms[2], probe.terms[1] >>)

\* The query 'a a' on a document with 'A' in one line and 'a' in another
\* scored 4.
C29_Witness ==
    /\ probe.at = "matched"
    /\ probe.terms = << <<"a">>, <<"a">> >>
    /\ probe.content = <<"b", "\n", "b", "\n", "b", "\n", "A", "\n", "b", "\n", "b", "\n", "b", "\n", "a">>
    /\ ScoreGiven = 4
    /\ ScoreFor(<< <<"a">> >>) = 2

\* No element of a sequence stands in it twice.
NoDuplicates(seq) == \A i, j \in 1..Len(seq) : seq[i] = seq[j] => i = j

\* A path lies below an entry that is neither a file nor a directory.
BelowLink(path) ==
    \E n \in 1..(Len(path) - 1) : NodeAt(startDisk, SubSeq(path, 1, n)).type = "other"

\* Nothing is visited twice and nothing below a link is visited at all.
VisitedOnce ==
    pc \in {"stat", "readdir", "entry", "done"} =>
        /\ NoDuplicates(statLog)
        /\ NoDuplicates(listed)
        /\ NoDuplicates(seen)
        /\ NoDuplicates(readLog)
        /\ \A p \in Range(listed) \cup Range(seen) \cup Range(readLog) : ~BelowLink(p)
        /\ \A p \in Range(listed) \cup Range(readLog) :
               NodeAt(startDisk, p).type # "other"

\* C24: every search that has begun comes to its end with an answer, a list
\* of results or an error response, whatever fails on the disk in between;
\* on its way it visits every directory and every file at most once and
\* follows no entry that is neither a file nor a directory.
C24_SearchTerminates ==
    /\ [](VisitedOnce)
    /\ (pc \in {"stat", "readdir", "entry"}) ~> (pc = "done" /\ response.kind \in {"none", "found", "error"})

\* A search has ended after a directory could not be listed and after it
\* passed a link.
C24_Witness ==
    /\ pc = "done"
    /\ failed # <<>>
    /\ \E p \in Range(seen) : NodeAt(startDisk, p).type = "other"
    /\ \E p \in Range(listed) : p \in Range(failed)

====
